---- MODULE Spec2Model ----
(***************************************************************************)
(* Expense tracker (Project2.py, chk.py): a Tkinter form and table over    *)
(* one SQLite table "expenses" in the file expenses.db.                    *)
(*                                                                         *)
(* Texts are sequences of one-character strings, so that slicing, prefix   *)
(* matching, LIKE, SUBSTR, float() and the BINARY collation are computed   *)
(* character by character as the code and SQLite compute them.             *)
(***************************************************************************)
EXTENDS Integers, Sequences, FiniteSets, TLC

(***************************************************************************)
(* Bounds of the model.                                                    *)
(***************************************************************************)
\* INSERTs performed over the life of expenses.db (caps the AUTOINCREMENT counter).
MaxId == 2

(***************************************************************************)
(* Characters and texts.                                                   *)
(***************************************************************************)
\* The characters the modelled inputs use, in ASCII order.
Printable ==
    << " ", "%", "+", "-", "0", "1", "2", "3", "5", "B", "F", "_",
       "a", "b", "c", "d", "f", "h", "i", "l", "n", "o", "s", "u" >>

OrdTable ==
    [c \in {Printable[i] : i \in 1..Len(Printable)} |->
        CHOOSE i \in 1..Len(Printable) : Printable[i] = c]

Ord(c) == OrdTable[c]

Digits == {"0", "1", "2", "3", "5"}

DigitVal(c) ==
    CASE c = "0" -> 0 [] c = "1" -> 1 [] c = "2" -> 2 [] c = "3" -> 3 [] c = "5" -> 5

\* ASCII lower-casing of the modelled characters (float() and SQLite's LIKE both
\* ignore ASCII case).
Lower(c) == CASE c = "B" -> "b" [] c = "F" -> "f" [] OTHER -> c

LowerText(s) == [i \in 1..Len(s) |-> Lower(s[i])]

\* Python s[:n]
Take(s, n) == SubSeq(s, 1, IF Len(s) < n THEN Len(s) ELSE n)

\* memcmp order of two texts: SQLite's BINARY collation on TEXT values.
RECURSIVE TextLess(_, _)
TextLess(a, b) ==
    IF b = <<>> THEN FALSE
    ELSE IF a = <<>> THEN TRUE
    ELSE IF Ord(a[1]) # Ord(b[1]) THEN Ord(a[1]) < Ord(b[1])
    ELSE TextLess(Tail(a), Tail(b))

\* s.strip(): float() ignores leading and trailing whitespace.
RECURSIVE LStrip(_)
LStrip(s) == IF s # <<>> /\ s[1] = " " THEN LStrip(Tail(s)) ELSE s

RECURSIVE RStrip(_)
RStrip(s) ==
    IF s # <<>> /\ s[Len(s)] = " " THEN RStrip(SubSeq(s, 1, Len(s) - 1)) ELSE s

Strip(s) == RStrip(LStrip(s))

(***************************************************************************)
(* Python floats and SQLite values of the REAL column "amount".            *)
(* Amounts of the modelled inputs are whole numbers, exact in a double.    *)
(***************************************************************************)
Real(n) == [kind |-> "real", val |-> n]
Inf(sign) == [kind |-> "inf", val |-> sign]
NaN == [kind |-> "nan", val |-> 0]
NULL == [kind |-> "null", val |-> 0]
ValueError == [kind |-> "ValueError", val |-> 0]

RECURSIVE DigitsVal(_, _)
DigitsVal(s, acc) ==
    IF s = <<>> THEN acc ELSE DigitsVal(Tail(s), 10 * acc + DigitVal(s[1]))

\* Python float(text) on the modelled alphabet: optional surrounding blanks, an
\* optional sign, then decimal digits, or "inf" / "infinity" / "nan" in any case.
\* Anything else raises ValueError.
float(text) ==
    LET s == Strip(text)
        signed == s # <<>> /\ s[1] \in {"+", "-"}
        sign == IF signed /\ s[1] = "-" THEN -1 ELSE 1
        body == LowerText(IF signed THEN Tail(s) ELSE s)
    IN  IF body = <<>> THEN ValueError
        ELSE IF body \in { <<"i", "n", "f">>,
                           <<"i", "n", "f", "i", "n", "i", "t", "y">> }
             THEN Inf(sign)
        ELSE IF body = <<"n", "a", "n">> THEN NaN
        ELSE IF \A i \in 1..Len(body) : body[i] \in Digits
             THEN Real(sign * DigitsVal(body, 0))
        ELSE ValueError

\* Binding a Python float as an SQL parameter: sqlite3_bind_double stores NaN as NULL.
Bind(f) == IF f.kind = "nan" THEN NULL ELSE f

\* IEEE addition on the modelled values.
FAdd(a, b) ==
    IF a.kind = "nan" \/ b.kind = "nan" THEN NaN
    ELSE IF a.kind = "inf" /\ b.kind = "inf"
         THEN IF a.val = b.val THEN a ELSE NaN
    ELSE IF a.kind = "inf" THEN a
    ELSE IF b.kind = "inf" THEN b
    ELSE Real(a.val + b.val)

\* SQL SUM(amount) over the rows of a scan: NULLs are skipped, no non-NULL value
\* gives NULL, and a NaN result is returned as NULL.
RECURSIVE SumStep(_, _)
SumStep(vals, acc) ==
    IF vals = <<>> THEN acc
    ELSE IF vals[1].kind = "null" THEN SumStep(Tail(vals), acc)
    ELSE SumStep(Tail(vals), IF acc.kind = "null" THEN vals[1] ELSE FAdd(acc, vals[1]))

SUM(vals) ==
    LET r == SumStep(vals, NULL) IN IF r.kind = "nan" THEN NULL ELSE r

\* SQL "text LIKE pattern": % matches any run of characters, _ any one character,
\* other characters match without regard to ASCII case.
RECURSIVE LIKE(_, _)
LIKE(text, pattern) ==
    IF pattern = <<>> THEN text = <<>>
    ELSE IF pattern[1] = "%"
         THEN LIKE(text, Tail(pattern)) \/ (text # <<>> /\ LIKE(Tail(text), pattern))
    ELSE /\ text # <<>>
         /\ (pattern[1] = "_" \/ Lower(pattern[1]) = Lower(text[1]))
         /\ LIKE(Tail(text), Tail(pattern))

\* SQL SUBSTR(text, 1, n)
SUBSTR(text, n) == SubSeq(text, 1, IF Len(text) < n THEN Len(text) ELSE n)

(***************************************************************************)
(* Texts typed into the form.                                              *)
(***************************************************************************)
Empty == <<>>
Jan10 == <<"2", "0", "2", "5", "-", "0", "1", "-", "1", "0">>
Jan15 == <<"2", "0", "2", "5", "-", "0", "1", "-", "1", "5">>
Feb01 == <<"2", "0", "2", "5", "-", "0", "2", "-", "0", "1">>
Mar05 == <<"2", "0", "2", "5", "-", "0", "3", "-", "0", "5">>
Food == <<"F", "o", "o", "d">>
food == <<"f", "o", "o", "d">>
Bills == <<"B", "i", "l", "l", "s">>
lunch == <<"l", "u", "n", "c", "h">>

Form(d, a, c, t) == [date |-> d, amount |-> a, category |-> c, description |-> t]

\* Fillings of the four entry fields when "Add Expense" is pressed.
Forms ==
    { Form(Jan10, <<"5", "0">>, Food, Empty),
      Form(Jan15, <<"3", "0">>, Food, Empty),
      Form(Feb01, <<"1", "0", "0">>, Bills, Empty),
      Form(Jan15, <<" ", "+", "5", " ">>, food, lunch),
      Form(Mar05, <<"i", "n", "f">>, Bills, Empty),
      Form(Mar05, <<"-", "i", "n", "f">>, Bills, Empty),
      Form(Mar05, <<"n", "a", "n">>, food, Empty),
      Form(Feb01, <<"a", "b", "c">>, Food, Empty),
      Form(Empty, <<"5", "0">>, Food, Empty),
      Form(Jan10, <<"5", "0">>, Empty, Empty),
      Form(Jan10, Empty, Food, lunch) }

\* Contents of the date entry when "Monthly Summary" is pressed.
SummaryDates ==
    { Jan10, Mar05,
      <<"2", "0", "2", "5", "_", "0", "1">>,
      <<"2", "0", "2", "5">> }

\* The two programs of the repository; both open the file expenses.db.
Variants == {"Project2", "chk"}

\* Processes that may have a window open on expenses.db.
Sessions == {"first", "second"}

(***************************************************************************)
(* The table "expenses" and its statements.                                *)
(***************************************************************************)
Ids(T) == {r.id : r \in T}

Max(S) == CHOOSE m \in S : \A x \in S : x <= m

\* The rows of a table scan: ascending rowid.
RECURSIVE RowsByRowid(_)
RowsByRowid(T) ==
    IF T = {} THEN <<>>
    ELSE LET r == CHOOSE x \in T : \A y \in T : x.id <= y.id
         IN  <<r>> \o RowsByRowid(T \ {r})

\* A plain INTEGER PRIMARY KEY: one more than the largest rowid now in the table.
NextRowidWithoutAutoincrement(T, seq) == Max(Ids(T) \cup {0}) + 1

\* id INTEGER PRIMARY KEY AUTOINCREMENT: one more than the largest rowid the table
\* ever held, which sqlite_sequence remembers across deletions.
NextRowid(T, seq) == Max(Ids(T) \cup {seq}) + 1

\* INSERT INTO expenses (date, amount, category, description) VALUES (?, ?, ?, ?)
INSERT(T, seq, date, amount, category, description) ==
    T \cup { [id |-> NextRowid(T, seq), date |-> date, amount |-> Bind(amount),
              category |-> category, description |-> description] }

\* DELETE FROM expenses WHERE id<=?
DeleteUpToId(T, item_id) == {r \in T : r.id > item_id}

\* DELETE FROM expenses WHERE id>=?
DeleteFromId(T, item_id) == {r \in T : r.id < item_id}

\* DELETE FROM expenses WHERE id=?
DELETE(T, item_id) == {r \in T : r.id # item_id}

InsertAt(s, p, r) == SubSeq(s, 1, p - 1) \o <<r>> \o SubSeq(s, p, Len(s))

\* The places a row may take among rows already sorted by date, descending.
\* Rows of equal date may come in either order (SQL leaves ties unspecified).
Placements(s, r) ==
    { InsertAt(s, p, r) : p \in
        { q \in 1..(Len(s) + 1) :
            /\ \A i \in 1..(q - 1) : ~TextLess(s[i].date, r.date)
            /\ \A i \in q..Len(s) : ~TextLess(r.date, s[i].date) } }

\* ORDER BY date DESC over a scan: the results the sorter may produce.
RECURSIVE OrderByDateDesc(_)
OrderByDateDesc(scan) ==
    IF scan = <<>> THEN {<<>>}
    ELSE UNION { Placements(s, scan[Len(scan)]) :
                    s \in OrderByDateDesc(SubSeq(scan, 1, Len(scan) - 1)) }

\* SELECT * FROM expenses
SelectAllUnordered(T) == {RowsByRowid(T)}

\* SELECT * FROM expenses ORDER BY date DESC
SelectAll(T) == OrderByDateDesc(RowsByRowid(T))

\* Texts in ascending BINARY order.
RECURSIVE SortTexts(_)
SortTexts(K) ==
    IF K = {} THEN <<>>
    ELSE LET m == CHOOSE k \in K : \A o \in K : ~TextLess(o, k)
         IN  <<m>> \o SortTexts(K \ {m})

Amounts(scan) == [i \in 1..Len(scan) |-> scan[i].amount]

\* SELECT SUM(amount) FROM expenses WHERE date LIKE ?
SelectMonthSum(T, pattern) ==
    SUM(Amounts(SelectSeq(RowsByRowid(T), LAMBDA r : LIKE(r.date, pattern))))

\* SELECT category, SUM(amount) FROM expenses GROUP BY category
SelectCategorySums(T) ==
    LET scan == RowsByRowid(T)
        keys == SortTexts({r.category : r \in T})
    IN  [i \in 1..Len(keys) |->
            [key |-> keys[i],
             total |-> SUM(Amounts(SelectSeq(scan, LAMBDA r : r.category = keys[i])))]]

\* SELECT SUBSTR(date, 1, 7) AS month, SUM(amount) FROM expenses
\*   GROUP BY month ORDER BY month
SelectMonthSums(T) ==
    LET scan == RowsByRowid(T)
        keys == SortTexts({SUBSTR(r.date, 7) : r \in T})
    IN  [i \in 1..Len(keys) |->
            [key |-> keys[i],
             total |-> SUM(Amounts(SelectSeq(scan, LAMBDA r : SUBSTR(r.date, 7) = keys[i])))]]

\* Python truth value of a fetched SUM: None and 0.0 are false.
Truthy(v) == v.kind # "null" /\ ~(v.kind = "real" /\ v.val = 0)

(***************************************************************************)
(* State.                                                                  *)
(***************************************************************************)
VARIABLES
    expenses,         \* the rows of table expenses in expenses.db (committed)
    sqlite_sequence,  \* the AUTOINCREMENT counter SQLite keeps for the table
    running,          \* per session: the program it runs, or "none"
    tree,             \* per session: the rows of self.tree, top to bottom
    last,             \* the last handler run: its inputs, the rows it changed
                      \* (SQLite's changes()) and what the user saw
    assigned          \* history: every id an INSERT has assigned so far

vars == <<expenses, sqlite_sequence, running, tree, last, assigned>>

NoForm == Form(Empty, Empty, Empty, Empty)

Event(op, w, outcome, message) ==
    [op |-> op, w |-> w, outcome |-> outcome, message |-> message,
     form |-> NoForm, ids |-> {}, changes |-> 0, month |-> Empty, total |-> NULL,
     category_data |-> <<>>, monthly_data |-> <<>>]

\* load_expenses without the loop that deletes the rows already shown.
load_expenses_without_clearing(old, T) == {old \o rows : rows \in SelectAll(T)}

\* load_expenses: the tree is emptied, then filled with the fetched rows in order.
load_expenses(old, T) == SelectAll(T)

\* setup_database (CREATE TABLE IF NOT EXISTS), then ExpenseTracker(root), whose
\* last statement is load_expenses(). Launching a running session restarts it.
Launch(w, v) ==
    /\ \E rows \in load_expenses(<<>>, expenses) :
          tree' = [tree EXCEPT ![w] = rows]
    /\ running' = [running EXCEPT ![w] = v]
    /\ last' = Event("launch", w, "done", "")
    /\ UNCHANGED <<expenses, sqlite_sequence, assigned>>

\* The branch of add_expense that reaches the INSERT.
Save(w, form, amount) ==
    /\ sqlite_sequence < MaxId
    /\ expenses' = INSERT(expenses, sqlite_sequence, form.date, amount,
                          form.category, form.description)
    /\ sqlite_sequence' = NextRowid(expenses, sqlite_sequence)
    /\ assigned' = assigned \cup {NextRowid(expenses, sqlite_sequence)}
    /\ \E rows \in load_expenses(tree[w], expenses') :
          tree' = [tree EXCEPT ![w] = rows]
    /\ last' = [Event("add", w, "done", "") EXCEPT !.form = form, !.changes = 1]
    /\ UNCHANGED running

\* A handler that returns, or is aborted, before it touches the table or the tree.
Refuse(w, op, form, outcome, message) ==
    /\ last' = [Event(op, w, outcome, message) EXCEPT !.form = form]
    /\ UNCHANGED <<expenses, sqlite_sequence, running, tree, assigned>>

\* Project2.py: the fields are tested for emptiness only; float() runs inside the
\* execute call, and its ValueError leaves the handler (Tk reports it on stderr).
add_expense_Project2(w, form) ==
    /\ running[w] = "Project2"
    /\ IF form.date # Empty /\ form.amount # Empty /\ form.category # Empty
       THEN IF float(form.amount) = ValueError
            THEN Refuse(w, "add", form, "exception", "ValueError")
            ELSE Save(w, form, float(form.amount))
       ELSE Refuse(w, "add", form, "showerror", "Please fill all fields")

\* chk.py: empty fields and a non-numeric amount each end in an error box.
add_expense_chk(w, form) ==
    /\ running[w] = "chk"
    /\ IF ~(form.date # Empty /\ form.amount # Empty /\ form.category # Empty)
       THEN Refuse(w, "add", form, "showerror", "Please fill all required fields!")
       ELSE IF float(form.amount) = ValueError
            THEN Refuse(w, "add", form, "showerror", "Amount must be a number!")
            ELSE Save(w, form, float(form.amount))

\* delete_expense (the same in both programs). selected is the set of tree
\* positions the user has highlighted; tree.item() of several items raises TclError.
\* item_id is the first value of the one selected row: the integer id it was
\* inserted with.
delete_expense(w, selected) ==
    /\ running[w] # "none"
    /\ IF selected = {}
       THEN Refuse(w, "delete", NoForm, "showerror", "Select an expense to delete")
       ELSE IF Cardinality(selected) > 1
            THEN Refuse(w, "delete", NoForm, "exception", "TclError")
            ELSE LET item_id == tree[w][CHOOSE i \in selected : TRUE].id
                 IN  /\ expenses' = DELETE(expenses, item_id)
                     /\ \E rows \in load_expenses(tree[w], expenses') :
                           tree' = [tree EXCEPT ![w] = rows]
                     /\ last' = [Event("delete", w, "done", "")
                                   EXCEPT !.ids = {item_id},
                                          !.changes = Cardinality(expenses \ expenses')]
                     /\ UNCHANGED <<sqlite_sequence, running, assigned>>

\* monthly_summary: the first seven characters of the date entry, then
\* f"...{total if total else 0}" in an info box.
monthly_summary(w, date) ==
    /\ running[w] # "none"
    /\ LET month == Take(date, 7)
           total == SelectMonthSum(expenses, month \o <<"%">>)
       IN  last' = [Event("monthly", w, "showinfo", "Monthly Summary")
                      EXCEPT !.month = month,
                             !.total = IF Truthy(total) THEN total ELSE Real(0)]
    /\ UNCHANGED <<expenses, sqlite_sequence, running, tree, assigned>>

\* category_analysis: Project2.py fetches the sums by category and by month,
\* chk.py the sums by category only; no rows at all ends in an info box.
category_analysis(w) ==
    /\ running[w] # "none"
    /\ LET category_data == SelectCategorySums(expenses)
           monthly_data == IF running[w] = "Project2"
                           THEN SelectMonthSums(expenses) ELSE <<>>
       IN  last' = [Event("analysis", w,
                          IF category_data = <<>> /\ monthly_data = <<>>
                          THEN "showinfo" ELSE "plot",
                          IF category_data = <<>> /\ monthly_data = <<>>
                          THEN IF running[w] = "chk" THEN "No data available!"
                                                     ELSE "No data available"
                          ELSE "")
                      EXCEPT !.category_data = category_data,
                             !.monthly_data = monthly_data]
    /\ UNCHANGED <<expenses, sqlite_sequence, running, tree, assigned>>

(***************************************************************************)
(* Specifications.                                                         *)
(***************************************************************************)
\* A fresh expenses.db, and the first session started with either program.
Init ==
    /\ expenses = {}
    /\ sqlite_sequence = 0
    /\ assigned = {}
    /\ \E v \in Variants : running = [w \in Sessions |-> IF w = "first" THEN v ELSE "none"]
    /\ tree = [w \in Sessions |-> <<>>]
    /\ last = Event("launch", "first", "done", "")

\* The handlers that write the table or the tree.
Ledger(w) ==
    \/ \E v \in Variants : Launch(w, v)
    \/ \E form \in Forms : add_expense_Project2(w, form)
    \/ \E form \in Forms : add_expense_chk(w, form)
    \/ \E selected \in SUBSET (1..Len(tree[w])) : delete_expense(w, selected)

\* The handlers that only read the table.
Reports(w) ==
    \/ \E date \in SummaryDates : monthly_summary(w, date)
    \/ category_analysis(w)

\* One session at a time works on expenses.db.
Next == Ledger("first") \/ Reports("first")

Spec == Init /\ [][Next]_vars

\* A second program is opened on the same expenses.db while the first one runs;
\* each window keeps the rows it fetched last. What matters here is which ids a
\* window still shows, so the first window saves two of the forms only.
SharedForms ==
    { Form(Jan10, <<"5", "0">>, Food, Empty),
      Form(Feb01, <<"1", "0", "0">>, Bills, Empty) }

NextShared ==
    \/ \E form \in SharedForms : add_expense_Project2("first", form)
    \/ \E form \in SharedForms : add_expense_chk("first", form)
    \/ \E selected \in SUBSET (1..Len(tree["first"])) : delete_expense("first", selected)
    \/ \E v \in Variants : Launch("second", v)
    \/ \E selected \in SUBSET (1..Len(tree["second"])) : delete_expense("second", selected)

SpecShared == Init /\ [][NextShared]_vars

(***************************************************************************)
(* Notions the claims are stated in.                                       *)
(***************************************************************************)
IsPrefix(p, t) == Len(p) <= Len(t) /\ SubSeq(t, 1, Len(p)) = p

\* A text of the form YYYY-MM.
IsYearMonth(m) ==
    /\ Len(m) = 7
    /\ m[5] = "-"
    /\ \A i \in {1, 2, 3, 4, 6, 7} : m[i] \in Digits

RECURSIVE SumOfVals(_)
SumOfVals(R) ==
    IF R = {} THEN 0
    ELSE LET r == CHOOSE x \in R : TRUE IN r.amount.val + SumOfVals(R \ {r})

\* The sum of the amounts of a set of records, as a number: a record without an
\* amount (NULL) adds nothing, and +inf together with -inf has no sum (NaN).
ExactSum(R) ==
    LET up == \E r \in R : r.amount = Inf(1)
        down == \E r \in R : r.amount = Inf(-1)
    IN  IF up /\ down THEN NaN
        ELSE IF up THEN Inf(1)
        ELSE IF down THEN Inf(-1)
        ELSE Real(SumOfVals({r \in R : r.amount.kind = "real"}))

\* The sums of a report, taken as records, so that they can be summed again.
Entries(data) == {[id |-> i, amount |-> data[i].total] : i \in 1..Len(data)}

Keys(data) == {data[i].key : i \in 1..Len(data)}

FiniteLedger == \A r \in expenses : r.amount.kind = "real"

\* rows lists every record of T once, by date descending.
IsListAllOf(rows, T) ==
    /\ Len(rows) = Cardinality(T)
    /\ {rows[i] : i \in 1..Len(rows)} = T
    /\ \A i, j \in 1..Len(rows) : i < j => ~TextLess(rows[i].date, rows[j].date)

\* The text parses as a number (finite or infinite), not as NaN and not at all.
NumericAmount(text) == float(text).kind \in {"real", "inf"}

(***************************************************************************)
(* C1. A create with non-empty date and category and a numeric amount      *)
(* succeeds; it adds exactly one record, whose date, amount, category and  *)
(* description are the input, which list_all then shows once, and whose id *)
(* is greater than every id assigned before, deleted records included.     *)
(***************************************************************************)
CreateAddsOneFreshRecord ==
    [][ ( /\ last'.op = "add"
          /\ last'.form.date # Empty
          /\ last'.form.category # Empty
          /\ NumericAmount(last'.form.amount) )
        => /\ last'.outcome = "done"
           /\ \E r \in expenses' \ expenses :
                 /\ expenses' = expenses \cup {r}
                 /\ r.date = last'.form.date
                 /\ r.amount = float(last'.form.amount)
                 /\ r.category = last'.form.category
                 /\ r.description = last'.form.description
                 /\ \A i \in assigned : i < r.id
                 /\ \A old \in expenses : old.id # r.id
                 /\ Cardinality({i \in 1..Len(tree'[last'.w]) :
                                    tree'[last'.w][i] = r}) = 1 ]_vars

\* A record was created after an earlier one had been deleted.
CreatedAfterDelete ==
    /\ last.op = "add"
    /\ last.outcome = "done"
    /\ Cardinality(assigned) > Cardinality(expenses)

(***************************************************************************)
(* C2. Deleting a record that is in the store removes it from list_all and *)
(* leaves every other record in place, unchanged.                          *)
(***************************************************************************)
DeleteRemovesOnlyThatRecord ==
    [][ ( /\ last'.op = "delete"
          /\ last'.outcome = "done"
          /\ last'.ids \subseteq Ids(expenses) )
        => /\ expenses' = {r \in expenses : r.id \notin last'.ids}
           /\ IsListAllOf(tree'[last'.w], {r \in expenses : r.id \notin last'.ids}) ]_vars

\* One of two records was deleted.
DeletedOneOfTwo ==
    /\ last.op = "delete"
    /\ last.outcome = "done"
    /\ last.changes = 1
    /\ expenses # {}

(***************************************************************************)
(* C3. A create with non-empty date and category whose amount text is not  *)
(* a number ends in an error reported to the user, not in an exception,    *)
(* and changes no record.                                                  *)
(***************************************************************************)
NonNumericAmountIsReported ==
    ( /\ last.op = "add"
      /\ last.form.date # Empty
      /\ last.form.category # Empty
      /\ float(last.form.amount) = ValueError )
    => (last.outcome = "showerror" /\ last.changes = 0)

(***************************************************************************)
(* C4. Every stored record has a non-empty date, a non-empty category and  *)
(* a finite numeric amount.                                                *)
(***************************************************************************)
StoredRecordsAreValid ==
    \A r \in expenses :
        r.date # Empty /\ r.category # Empty /\ r.amount.kind = "real"

\* What the code does keep: dates and categories are never empty.
StoredTextsAreNonEmpty ==
    \A r \in expenses : r.date # Empty /\ r.category # Empty

(***************************************************************************)
(* C5. Deleting an id that names no record in the store does not raise and *)
(* leaves the records as they were.                                        *)
(***************************************************************************)
DeleteAbsentIdIsNoOp ==
    [][ ( /\ last'.op = "delete"
          /\ last'.ids # {}
          /\ last'.ids \cap Ids(expenses) = {} )
        => /\ last'.outcome = "done"
           /\ expenses' = expenses
           /\ IsListAllOf(tree'[last'.w], expenses) ]_vars

\* A window deleted a row it still showed after the record had gone,
\* while another record was in the store.
DeletedAbsentId ==
    /\ last.op = "delete"
    /\ last.outcome = "done"
    /\ last.ids # {}
    /\ last.changes = 0
    /\ expenses # {}

(***************************************************************************)
(* C6. When the stored dates are pairwise distinct, list_all returns every *)
(* record once, strictly descending by date, whatever the insertion order. *)
(***************************************************************************)
ListAllDescendingByDate ==
    (\A r, q \in expenses : r.date = q.date => r = q)
    => \A rows \in SelectAll(expenses) :
          /\ IsListAllOf(rows, expenses)
          /\ \A i, j \in 1..Len(rows) : i < j => TextLess(rows[j].date, rows[i].date)

\* Two records with distinct dates, the later date inserted last.
InsertedInAscendingDateOrder ==
    /\ \A r, q \in expenses : r.date = q.date => r = q
    /\ \E r, q \in expenses : r.id < q.id /\ TextLess(r.date, q.date)

(***************************************************************************)
(* C7. For a month of the form YYYY-MM, the monthly total shown is the sum *)
(* of the amounts of exactly the records whose date starts with the month, *)
(* and 0 when there is none.                                               *)
(***************************************************************************)
MonthlyTotalIsPrefixSum ==
    (last.op = "monthly" /\ IsYearMonth(last.month))
    => last.total = ExactSum({r \in expenses : IsPrefix(last.month, r.date)})

\* The same, for a ledger whose amounts are all finite numbers.
MonthlyTotalOfFiniteLedger ==
    FiniteLedger => MonthlyTotalIsPrefixSum

\* A monthly total over a finite ledger in which the month has a record and
\* another month has one too.
MonthlyTotalTaken ==
    /\ last.op = "monthly"
    /\ IsYearMonth(last.month)
    /\ FiniteLedger
    /\ \E r \in expenses : IsPrefix(last.month, r.date)
    /\ \E r \in expenses : ~IsPrefix(last.month, r.date)

(***************************************************************************)
(* C8. The totals by category have exactly one entry per distinct category *)
(* text (case-sensitive), each the sum of the amounts of the records of    *)
(* that category; the entries add up to the sum of all amounts; no records *)
(* give no entries.                                                        *)
(***************************************************************************)
CategoryTotalsPartitionLedger ==
    last.op = "analysis"
    => LET data == last.category_data
       IN  /\ Len(data) = Cardinality({r.category : r \in expenses})
           /\ Keys(data) = {r.category : r \in expenses}
           /\ \A i \in 1..Len(data) :
                 data[i].total = ExactSum({r \in expenses : r.category = data[i].key})
           /\ ExactSum(Entries(data)) = ExactSum(expenses)
           /\ (expenses = {} => data = <<>>)

\* The same, for a ledger whose amounts are all finite numbers.
CategoryTotalsOfFiniteLedger ==
    FiniteLedger => CategoryTotalsPartitionLedger

\* Totals taken over a finite ledger that holds both "Food" and "food".
CategoryTotalsTaken ==
    /\ last.op = "analysis"
    /\ FiniteLedger
    /\ \E r, q \in expenses : r.category = Food /\ q.category = food

(***************************************************************************)
(* C9. The totals by month (Project2.py) have one pair per distinct        *)
(* first-seven-characters prefix of the stored dates, each the sum of the  *)
(* amounts of the records with that prefix, in strictly ascending order of *)
(* the month; no records give no pairs.                                    *)
(***************************************************************************)
MonthTotalsPartitionLedger ==
    (last.op = "analysis" /\ running[last.w] = "Project2")
    => LET data == last.monthly_data
       IN  /\ Len(data) = Cardinality({Take(r.date, 7) : r \in expenses})
           /\ Keys(data) = {Take(r.date, 7) : r \in expenses}
           /\ \A i \in 1..Len(data) :
                 data[i].total = ExactSum({r \in expenses : Take(r.date, 7) = data[i].key})
           /\ \A i, j \in 1..Len(data) : i < j => TextLess(data[i].key, data[j].key)
           /\ (expenses = {} => data = <<>>)

\* The same, for a ledger whose amounts are all finite numbers.
MonthTotalsOfFiniteLedger ==
    FiniteLedger => MonthTotalsPartitionLedger

\* Totals by month taken over a finite ledger with records of two months.
MonthTotalsTaken ==
    /\ last.op = "analysis"
    /\ running[last.w] = "Project2"
    /\ FiniteLedger
    /\ \E r, q \in expenses : Take(r.date, 7) # Take(q.date, 7)

(***************************************************************************)
(* C10. With one session on the store: after startup and after every add   *)
(* or delete, however it ended, the rows of the tree are the records       *)
(* list_all returns for the store, so a selected row names a stored record.*)
(***************************************************************************)
TreeShowsListAll ==
    /\ IsListAllOf(tree["first"], expenses)
    /\ \A i \in 1..Len(tree["first"]) : tree["first"][i].id \in Ids(expenses)

\* A handler was aborted by an exception while the store held records.
AbortedWithRecordsShown ==
    /\ last.outcome = "exception"
    /\ expenses # {}

====
